---- MODULE Spec2Model ----
(***************************************************************************)
(* cosmosis/postprocessing/cosmology_theory_plots.py                       *)
(*                                                                         *)
(* The module defines a family of plot classes that register themselves    *)
(* through the metaclass RegisteredPlot, and a driver main() that creates  *)
(* the output directory and calls make() on every registered class,        *)
(* recovering from IOError.  The model follows one import of the module    *)
(* and one run of main over a sample directory of text files.              *)
(***************************************************************************)
EXTENDS Integers, Sequences, FiniteSets, TLC

VARIABLES
    fs,        \* the sample directory: path of a data file -> its condition
    args,      \* the parsed command line (dirname, output_dir, prefix, type)
    defined,   \* number of class statements of the module executed so far
    registry,  \* RegisteredPlot.registry
    pc,        \* the position of control in the import and in main
    order,     \* the order in which "for cls in Plot.registry" yields
    idx,       \* the position of the loop of main in order
    p,         \* the Plot instance make() is working on
    outdirs,   \* directories created by utils.mkdir
    outfiles,  \* image files present in the output directory
    events,    \* history: the steps main and make have performed
    arr,       \* a loaded power-spectrum array (sign-flip rule)
    flipped,   \* what the sign-flip rule made of arr
    vfile,     \* the lines of a values.txt file
    vresult    \* what load_values returned for vfile

vars == <<fs, args, defined, registry, pc, order, idx, p, outdirs, outfiles,
          events, arr, flipped, vfile, vresult>>

mainVars == <<fs, args, defined, registry, pc, order, idx, p, outdirs,
              outfiles, events>>
flipVars == <<arr, flipped>>
valueVars == <<vfile, vresult>>

(***************************************************************************)
(* Bounds of the model.                                                    *)
(***************************************************************************)
MaxBin == 3      \* largest tomographic bin index with files in the sample
MaxLen == 4      \* longest power-spectrum array put through the sign test
MaxLines == 2    \* most lines of a values.txt file

(***************************************************************************)
(* The class statements of the module, in source order.  filename is the   *)
(* class's own "filename" attribute, <<>> when the class body sets none.   *)
(***************************************************************************)
ClassDefs ==
    << [name |-> "Plot",                        base |-> "object",            filename |-> <<"error">>],
       [name |-> "DistancePlot",                base |-> "Plot",              filename |-> <<>>],
       [name |-> "AngularDiameterDistancePlot", base |-> "DistancePlot",      filename |-> <<"angular_distance">>],
       [name |-> "LuminosityDistancePlot",      base |-> "DistancePlot",      filename |-> <<"luminosity_distance">>],
       [name |-> "ComovingDistancePlot",        base |-> "DistancePlot",      filename |-> <<"comoving_distance">>],
       [name |-> "HubblePlot",                  base |-> "DistancePlot",      filename |-> <<"hubble">>],
       [name |-> "DistanceModulusPlot",         base |-> "DistancePlot",      filename |-> <<"distance_modulus">>],
       [name |-> "CMBSpectrumPlot",             base |-> "Plot",              filename |-> <<>>],
       [name |-> "TTPlot",                      base |-> "CMBSpectrumPlot",   filename |-> <<"tt">>],
       [name |-> "EEPlot",                      base |-> "CMBSpectrumPlot",   filename |-> <<"ee">>],
       [name |-> "TEPlot",                      base |-> "CMBSpectrumPlot",   filename |-> <<"te">>],
       [name |-> "BBPlot",                      base |-> "CMBSpectrumPlot",   filename |-> <<"bb">>],
       [name |-> "GrandPlot",                   base |-> "Plot",              filename |-> <<"grand">>],
       [name |-> "MatterPowerPlot",             base |-> "Plot",              filename |-> <<"matter_power">>],
       [name |-> "ShearSpectrumPlot",           base |-> "Plot",              filename |-> <<"shear_power">>],
       [name |-> "MatterPower2D",               base |-> "ShearSpectrumPlot", filename |-> <<"matter_power_2d">>],
       [name |-> "ShearCorrelationPlusPlot",    base |-> "Plot",              filename |-> <<"shear_xi_plus">>],
       [name |-> "ShearCorrelationMinusPlot",   base |-> "Plot",              filename |-> <<"shear_xi_minus">>],
       [name |-> "GrowthPlot",                  base |-> "Plot",              filename |-> <<"growth">>],
       [name |-> "LuminositySlopePlot",         base |-> "Plot",              filename |-> <<"galaxy_luminosity_slope">>] >>

NumClasses == Len(ClassDefs)

ClassNames == { ClassDefs[k].name : k \in 1..NumClasses }

ClassDef(c) == ClassDefs[CHOOSE k \in 1..NumClasses : ClassDefs[k].name = c]

(* Attribute lookup of "filename" along the (single) inheritance chain. *)
RECURSIVE Filename(_)
Filename(c) ==
    IF ClassDef(c).filename # <<>>
    THEN ClassDef(c).filename[1]
    ELSE Filename(ClassDef(c).base)

(* RegisteredPlot.__new__: the new class is added to the registry and its *)
(* bases are taken out of it.                                              *)
RegisteredPlot_new(reg, name, bases) == (reg \cup {name}) \ bases

(***************************************************************************)
(* The command line.  dirname, output_dir and type are fixed; the prefix   *)
(* is either the default (empty) or a given word.                          *)
(***************************************************************************)
Prefixes == {"", "run"}

ArgSets == { [dirname |-> "sample", output_dir |-> "out", prefix |-> x, type |-> "png"] :
             x \in Prefixes }

(***************************************************************************)
(* The sample directory.  A data file is                                   *)
(*   "absent"      no such file;                                           *)
(*   "ok"          numeric text that loads as an array of the shape the    *)
(*                 plot expects;                                           *)
(*   "grid"        numeric text of several columns (a two-dimensional      *)
(*                 array);                                                 *)
(*   "bad"         a file whose text is not numeric;                       *)
(*   "unreadable"  a file that exists and cannot be opened.                *)
(***************************************************************************)
Conditions == {"absent", "ok", "grid", "bad", "unreadable"}

(* Plot.file_path *)
file_path(dirname, section, name) == dirname \o "/" \o section \o "/" \o name \o ".txt"

(* "bin_{0}_{1}".format(i, j) *)
bin_name(i, j) == "bin_" \o ToString(i) \o "_" \o ToString(j)

Condition(f, path) == IF path \in DOMAIN f THEN f[path] ELSE "absent"

(* os.path.exists *)
path_exists(f, path) == Condition(f, path) # "absent"

(* np.loadtxt: the array it returns, or the exception it raises.  The      *)
(* exceptions are a missing file (FileNotFoundError), a file that cannot   *)
(* be opened (PermissionError) and text that is not numeric (ValueError).  *)
loadtxt(f, path) ==
    CASE Condition(f, path) = "ok"         -> [exc |-> "none", value |-> "array1d"]
      [] Condition(f, path) = "grid"       -> [exc |-> "none", value |-> "array2d"]
      [] Condition(f, path) = "absent"     -> [exc |-> "FileNotFoundError", value |-> "none"]
      [] Condition(f, path) = "unreadable" -> [exc |-> "PermissionError", value |-> "none"]
      [] Condition(f, path) = "bad"        -> [exc |-> "ValueError", value |-> "none"]

(* The exceptions that "except Exception" catches: every one loadtxt raises. *)
IsException(e) == e \in {"FileNotFoundError", "PermissionError", "ValueError", "TypeError", "IOError"}

(* The exceptions that "except IOError" catches: IOError (OSError) and its *)
(* subclasses.                                                             *)
IsIOError(e) == e \in {"IOError", "FileNotFoundError", "PermissionError"}

(* load_file with a narrower except clause: only a failure to open the    *)
(* file is turned into the data-unavailable error.                         *)
load_file_only_missing(f, dirname, section, name) ==
    LET r == loadtxt(f, file_path(dirname, section, name))
    IN  IF r.exc # "none" /\ IsIOError(r.exc)
        THEN [exc |-> "IOError", value |-> "none"]
        ELSE r

(* Plot.load_file: any exception of loadtxt is replaced by IOError. *)
load_file(f, dirname, section, name) ==
    LET r == loadtxt(f, file_path(dirname, section, name))
    IN  IF r.exc # "none" /\ IsException(r.exc)
        THEN [exc |-> "IOError", value |-> "none"]
        ELSE r

(***************************************************************************)
(* A Plot instance: the class, the output path, and what plot() has done   *)
(* to it so far: the load_file calls in order, the axes added to the       *)
(* figure, the axes given axis labels, the curves drawn, and the exception *)
(* plot() ended with ("none" when it returned).                            *)
(***************************************************************************)
NoPlot == [cls |-> "none", outfile |-> "", loads |-> <<>>, axes |-> <<>>,
           labelled |-> {}, curves |-> 0, exc |-> "none"]

(* Plot.__init__ without the test of the prefix: the underscore is always  *)
(* added.                                                                  *)
Plot_init_always_underscore(cls, a) ==
    [NoPlot EXCEPT !.cls = cls,
                   !.outfile = a.output_dir \o "/" \o (a.prefix \o "_") \o Filename(cls)
                               \o "." \o a.type]

(* Plot.__init__ *)
Plot_init(cls, a) ==
    LET prefix == IF a.prefix # "" THEN a.prefix \o "_" ELSE a.prefix
    IN  [NoPlot EXCEPT !.cls = cls,
                       !.outfile = a.output_dir \o "/" \o prefix \o Filename(cls)
                                   \o "." \o a.type]

(* One load_file call of a plot routine: nothing happens once an exception *)
(* is propagating; otherwise the call is recorded and its exception, if    *)
(* any, starts propagating.                                                *)
Load(f, a, q, section, name) ==
    IF q.exc # "none" THEN q
    ELSE LET r == load_file(f, a.dirname, section, name)
         IN  [q EXCEPT !.loads = Append(@, [path |-> file_path(a.dirname, section, name),
                                            condition |-> Condition(f, file_path(a.dirname, section, name)),
                                            exc |-> r.exc,
                                            value |-> r.value]),
                       !.exc = r.exc]

(* A drawing call (pylab.plot, pylab.loglog): one more curve, unless an    *)
(* exception is propagating.                                               *)
Draw(q) == IF q.exc # "none" THEN q ELSE [q EXCEPT !.curves = @ + 1]

(* The value the latest load_file call returned. *)
LastValue(q) == q.loads[Len(q.loads)].value

(***************************************************************************)
(* The plot routines.  Each takes the sample directory f, the command line *)
(* a and the instance q, and gives the instance as plot() leaves it.       *)
(***************************************************************************)

(* The class attributes "distance" (DistancePlot subclasses) and "name"    *)
(* (CMBSpectrumPlot subclasses).                                           *)
distance(cls) ==
    CASE cls = "AngularDiameterDistancePlot" -> "d_a"
      [] cls = "LuminosityDistancePlot"      -> "d_l"
      [] cls = "ComovingDistancePlot"        -> "d_m"
      [] cls = "HubblePlot"                  -> "h"
      [] cls = "DistanceModulusPlot"         -> "mu"

name(cls) ==
    CASE cls = "TTPlot" -> "tt"
      [] cls = "EEPlot" -> "ee"
      [] cls = "TEPlot" -> "te"
      [] cls = "BBPlot" -> "bb"

(* DistancePlot.plot *)
DistancePlot_plot(f, a, q) ==
    Draw(Load(f, a, Load(f, a, q, "distances", "z"), "distances", distance(q.cls)))

(* CMBSpectrumPlot.plot; BBPlot.plot calls it and then sets the x range. *)
CMBSpectrumPlot_plot(f, a, q) ==
    Draw(Load(f, a, Load(f, a, q, "cmb_cl", "ell"), "cmb_cl", name(q.cls)))

BBPlot_plot(f, a, q) == CMBSpectrumPlot_plot(f, a, q)

(* GrandPlot.plot: ell, then each spectrum is loaded and drawn in turn. *)
RECURSIVE GrandLoop(_, _, _, _)
GrandLoop(f, a, q, names) ==
    IF names = <<>> THEN q
    ELSE GrandLoop(f, a, Draw(Load(f, a, q, "cmb_cl", Head(names))), Tail(names))

GrandPlot_plot(f, a, q) ==
    GrandLoop(f, a, Load(f, a, q, "cmb_cl", "ell"), <<"tt", "ee", "te", "bb">>)

(* MatterPowerPlot.plot_section *)
MatterPowerPlot_plot_section(f, a, q, section, p_name) ==
    Draw(Load(f, a, Load(f, a, Load(f, a, q, section, "k_h"), section, "z"), section, p_name))

(* MatterPowerPlot.power_files_exist; os.path.join puts "/" between the    *)
(* parts, which is the path file_path builds.                              *)
power_files_exist(f, a, section) ==
    \A filename \in {"k_h", "z", "p_k"} :
        path_exists(f, file_path(a.dirname, section, filename))

(* The six guarded plot_section calls of MatterPowerPlot.plot, in order. *)
MatterSections ==
    << [section |-> "matter_power_lin",               p_name |-> "p_k"],
       [section |-> "matter_power_nl",                p_name |-> "p_k"],
       [section |-> "matter_power_gal",               p_name |-> "p_k"],
       [section |-> "matter_power_no_bao",            p_name |-> "p_k"],
       [section |-> "intrinsic_alignment_parameters", p_name |-> "p_ii"],
       [section |-> "intrinsic_alignment_parameters", p_name |-> "p_gi"] >>

RECURSIVE MatterLoop(_, _, _, _)
MatterLoop(f, a, st, calls) ==
    IF calls = <<>> \/ st.q.exc # "none" THEN st
    ELSE IF power_files_exist(f, a, Head(calls).section)
         THEN LET q1 == MatterPowerPlot_plot_section(f, a, st.q, Head(calls).section,
                                                      Head(calls).p_name)
              IN  MatterLoop(f, a, [q |-> q1,
                                    done_any |-> IF q1.exc = "none" THEN TRUE
                                                 ELSE st.done_any],
                             Tail(calls))
         ELSE MatterLoop(f, a, st, Tail(calls))

(* MatterPowerPlot.plot *)
MatterPowerPlot_plot(f, a, q) ==
    LET st == MatterLoop(f, a, [q |-> q, done_any |-> FALSE], MatterSections)
    IN  IF st.q.exc # "none" THEN st.q
        ELSE IF ~st.done_any THEN [st.q EXCEPT !.exc = "IOError"]
        ELSE st.q

(* The stop of "for i in range(1,100)". *)
RangeStop == 100

(* The loop that counts the files bin_i_i present, from i = 1, up to the   *)
(* first one absent.                                                       *)
RECURSIVE CountBins(_, _, _, _, _)
CountBins(f, a, section, i, nbin) ==
    IF i >= RangeStop THEN nbin
    ELSE IF path_exists(f, file_path(a.dirname, section, bin_name(i, i)))
         THEN CountBins(f, a, section, i + 1, nbin + 1)
         ELSE nbin

(* "if nbin==0: IOError(...)": the exception is built and not raised, so   *)
(* the statement leaves the instance as it is.                             *)
no_data_check(q, nbin) == q

(* The double loop with the inner range running to nbin: the full square. *)
RECURSIVE PairsFrom_square(_, _, _)
PairsFrom_square(i, j, nbin) ==
    IF i > nbin THEN <<>>
    ELSE IF j > nbin THEN PairsFrom_square(i + 1, 1, nbin)
    ELSE <<<<i, j>>>> \o PairsFrom_square(i, j + 1, nbin)

(* The pairs (i, j) in the order of "for i in range(1, nbin+1): for j in   *)
(* range(1, i+1)".                                                         *)
RECURSIVE PairsFrom(_, _, _)
PairsFrom(i, j, nbin) ==
    IF i > nbin THEN <<>>
    ELSE IF j > i THEN PairsFrom(i + 1, 1, nbin)
    ELSE <<<<i, j>>>> \o PairsFrom(i, j + 1, nbin)

(* "if all(cl<=0)": all() iterates over the rows of cl <= 0, and the truth *)
(* value of a row of a two-dimensional array is a ValueError.              *)
all_nonpositive_test(q) ==
    IF q.exc = "none" /\ LastValue(q) = "array2d"
    THEN [q EXCEPT !.exc = "ValueError"]
    ELSE q

(* One pass of the body of the double loop: add_axes, load_file of the     *)
(* pair's file, the sign test (power spectra only), the curve, and the     *)
(* axis labels for the pair (1, 1).                                        *)
Panel(f, a, q, section, pair, signtest) ==
    IF q.exc # "none" THEN q
    ELSE LET q1 == [q EXCEPT !.axes = Append(@, pair)]
             q2 == Load(f, a, q1, section, bin_name(pair[1], pair[2]))
             q3 == IF signtest THEN all_nonpositive_test(q2) ELSE q2
             q4 == Draw(q3)
         IN  IF q4.exc = "none" /\ pair[1] = 1 /\ pair[2] = 1
             THEN [q4 EXCEPT !.labelled = @ \cup {pair}]
             ELSE q4

RECURSIVE PanelLoop(_, _, _, _, _, _)
PanelLoop(f, a, q, section, pairs, signtest) ==
    IF pairs = <<>> THEN q
    ELSE PanelLoop(f, a, Panel(f, a, q, section, Head(pairs), signtest), section,
                   Tail(pairs), signtest)

(* ShearSpectrumPlot.plot_section *)
ShearSpectrumPlot_plot_section(f, a, q, section) ==
    IF q.exc # "none" THEN q
    ELSE LET nbin == CountBins(f, a, section, 1, 0)
             q1 == no_data_check(q, nbin)
             q2 == Load(f, a, q1, section, "ell")
         IN  PanelLoop(f, a, q2, section, PairsFrom(1, 1, nbin), TRUE)

(* The names of the files a two-point section can hold. *)
TwoPointNames(x) == {x} \cup { bin_name(i, j) : i \in 1..MaxBin, j \in 1..MaxBin }

(* os.path.exists of a section directory: the directory exists when it     *)
(* holds a file.                                                           *)
dir_exists(f, a, section) ==
    \E n \in TwoPointNames("ell") : path_exists(f, file_path(a.dirname, section, n))

(* ShearSpectrumPlot.plot *)
ShearSpectrumPlot_plot(f, a, q) ==
    LET q1 == ShearSpectrumPlot_plot_section(f, a, q, "shear_cl")
        q2 == IF q1.exc = "none" /\ dir_exists(f, a, "shear_cl_gg")
              THEN ShearSpectrumPlot_plot_section(f, a, q1, "shear_cl_gg") ELSE q1
        q3 == IF q2.exc = "none" /\ dir_exists(f, a, "shear_cl_gi")
              THEN ShearSpectrumPlot_plot_section(f, a, q2, "shear_cl_gi") ELSE q2
    IN  IF q3.exc = "none" /\ dir_exists(f, a, "shear_cl_ii")
        THEN ShearSpectrumPlot_plot_section(f, a, q3, "shear_cl_ii") ELSE q3

(* MatterPower2D.plot *)
MatterPower2D_plot(f, a, q) == ShearSpectrumPlot_plot_section(f, a, q, "matter_cl")

(* ShearCorrelationPlusPlot.plot *)
ShearCorrelationPlusPlot_plot(f, a, q) ==
    LET nbin == CountBins(f, a, "shear_xi_plus", 1, 0)
        q1 == no_data_check(q, nbin)
        q2 == Load(f, a, q1, "shear_xi_plus", "theta")
    IN  PanelLoop(f, a, q2, "shear_xi_plus", PairsFrom(1, 1, nbin), FALSE)

(* ShearCorrelationMinusPlot.plot *)
ShearCorrelationMinusPlot_plot(f, a, q) ==
    LET nbin == CountBins(f, a, "shear_xi_minus", 1, 0)
        q1 == no_data_check(q, nbin)
        q2 == Load(f, a, q1, "shear_xi_minus", "theta")
    IN  PanelLoop(f, a, q2, "shear_xi_minus", PairsFrom(1, 1, nbin), FALSE)

(* GrowthPlot.plot *)
GrowthPlot_plot(f, a, q) ==
    Draw(Draw(Load(f, a, Load(f, a, Load(f, a, q, "growth_parameters", "z"),
                                 "growth_parameters", "d_z"),
                   "growth_parameters", "f_z")))

(* LuminositySlopePlot.plot *)
LuminositySlopePlot_plot(f, a, q) ==
    Draw(Load(f, a, Load(f, a, q, "galaxy_luminosity_function", "z"),
              "galaxy_luminosity_function", "alpha"))

(* p.plot(): the method the class of the instance resolves to. *)
plot(f, a, q) ==
    CASE ClassDef(q.cls).base = "DistancePlot"    -> DistancePlot_plot(f, a, q)
      [] q.cls = "BBPlot"                         -> BBPlot_plot(f, a, q)
      [] ClassDef(q.cls).base = "CMBSpectrumPlot" /\ q.cls # "BBPlot"
                                                  -> CMBSpectrumPlot_plot(f, a, q)
      [] q.cls = "GrandPlot"                      -> GrandPlot_plot(f, a, q)
      [] q.cls = "MatterPowerPlot"                -> MatterPowerPlot_plot(f, a, q)
      [] q.cls = "ShearSpectrumPlot"              -> ShearSpectrumPlot_plot(f, a, q)
      [] q.cls = "MatterPower2D"                  -> MatterPower2D_plot(f, a, q)
      [] q.cls = "ShearCorrelationPlusPlot"       -> ShearCorrelationPlusPlot_plot(f, a, q)
      [] q.cls = "ShearCorrelationMinusPlot"      -> ShearCorrelationMinusPlot_plot(f, a, q)
      [] q.cls = "GrowthPlot"                     -> GrowthPlot_plot(f, a, q)
      [] q.cls = "LuminositySlopePlot"            -> LuminositySlopePlot_plot(f, a, q)

(***************************************************************************)
(* The sample directories of the model.  The sections are those the        *)
(* registered classes read; every file of the sample is in the same        *)
(* condition ("ok", or "absent" for an empty sample) except one.           *)
(***************************************************************************)
SampleSections ==
    << [section |-> "distances",                      names |-> {"z", "d_a", "d_l", "d_m", "h", "mu"}],
       [section |-> "cmb_cl",                         names |-> {"ell", "tt", "ee", "te", "bb"}],
       [section |-> "matter_power_lin",               names |-> {"k_h", "z", "p_k"}],
       [section |-> "matter_power_nl",                names |-> {"k_h", "z", "p_k"}],
       [section |-> "matter_power_gal",               names |-> {"k_h", "z", "p_k"}],
       [section |-> "matter_power_no_bao",            names |-> {"k_h", "z", "p_k"}],
       [section |-> "intrinsic_alignment_parameters", names |-> {"k_h", "z", "p_k", "p_ii", "p_gi"}],
       [section |-> "matter_cl",                      names |-> {"ell"}],
       [section |-> "shear_xi_plus",                  names |-> {"theta"}],
       [section |-> "shear_xi_minus",                 names |-> {"theta"}],
       [section |-> "growth_parameters",              names |-> {"z", "d_z", "f_z"}],
       [section |-> "galaxy_luminosity_function",     names |-> {"z", "alpha"}] >>

TwoPointSections == {"matter_cl", "shear_xi_plus", "shear_xi_minus"}

(* The pairs (i, j) with j <= i <= MaxBin: the pair files of the sample. *)
LowerPairs == { pr \in (1..MaxBin) \X (1..MaxBin) : pr[2] <= pr[1] }

BinNames == { bin_name(pr[1], pr[2]) : pr \in LowerPairs }

SampleFiles(dirname) ==
    UNION { { file_path(dirname, SampleSections[k].section, n) :
              n \in SampleSections[k].names
                    \cup (IF SampleSections[k].section \in TwoPointSections
                          THEN BinNames
                          ELSE {}) } :
            k \in 1..Len(SampleSections) }

(* The files that ShearSpectrumPlot.plot_section reads as spectra: only    *)
(* these are drawn as grids, since only there the code decides what        *)
(* happens to a two-dimensional array.                                     *)
SpectrumFiles(dirname) ==
    { file_path(dirname, "matter_cl", n) : n \in BinNames }

Samples(dirname) ==
    LET files == SampleFiles(dirname)
    IN  { [path \in files |-> IF path = odd THEN c ELSE base] :
          base \in {"ok", "absent"},
          odd \in files,
          c \in {"ok", "absent", "bad", "unreadable"} }
        \cup
        { [path \in files |-> IF path = odd THEN "grid" ELSE base] :
          base \in {"ok", "absent"},
          odd \in SpectrumFiles(dirname) }

(***************************************************************************)
(* Iteration over the registry.  A Python set yields its members in an     *)
(* order the program does not control; the model takes the order of        *)
(* definition rotated to start at each quarter of the registry, forwards   *)
(* and backwards.                                                          *)
(***************************************************************************)
RECURSIVE InDefinitionOrder(_, _)
InDefinitionOrder(reg, k) ==
    IF k > NumClasses THEN <<>>
    ELSE (IF ClassDefs[k].name \in reg THEN <<ClassDefs[k].name>> ELSE <<>>)
         \o InDefinitionOrder(reg, k + 1)

Rotate(s, k) == [i \in 1..Len(s) |-> s[((i + k - 1) % Len(s)) + 1]]

Reverse(s) == [i \in 1..Len(s) |-> s[Len(s) + 1 - i]]

Orders(reg) ==
    LET s == InDefinitionOrder(reg, 1)
        starts == { (k * Len(s)) \div 4 : k \in 0..3 }
    IN  { Rotate(s, k) : k \in starts } \cup { Reverse(Rotate(s, k)) : k \in starts }

(***************************************************************************)
(* Calls into the parts of the package outside this file.                  *)
(***************************************************************************)
(* utils.mkdir: the directory exists afterwards, whether or not it did. *)
mkdir(dirs, d) == dirs \cup {d}

(* pylab.savefig: the figure is written to the path, over any file there. *)
savefig(files, path) == files \cup {path}

Event(cls, step, info) == [cls |-> cls, step |-> step, info |-> info]

(***************************************************************************)
(* The initial state: nothing of the module has been executed.             *)
(***************************************************************************)
MainInit ==
    /\ args \in ArgSets
    /\ fs \in Samples("sample")
    /\ defined = 0
    /\ registry = {}
    /\ pc = "import"
    /\ order = <<>>
    /\ idx = 0
    /\ p = NoPlot
    /\ outdirs = {}
    /\ outfiles = {}
    /\ events = <<>>

FlipIdle == arr = <<>> /\ flipped = [routine |-> "none", out |-> <<>>]

ValuesIdle == vfile = <<>> /\ vresult = [exc |-> "none", values |-> <<>>, called |-> FALSE]

Init == MainInit /\ FlipIdle /\ ValuesIdle

(***************************************************************************)
(* Import of the module: the class statements run in order, each through   *)
(* RegisteredPlot.__new__.                                                 *)
(***************************************************************************)
DefineClass ==
    /\ pc = "import"
    /\ defined < NumClasses
    /\ defined' = defined + 1
    /\ registry' = RegisteredPlot_new(registry, ClassDefs[defined + 1].name,
                                      {ClassDefs[defined + 1].base})
    /\ UNCHANGED <<fs, args, pc, order, idx, p, outdirs, outfiles, events>>
    /\ UNCHANGED <<flipVars, valueVars>>

(***************************************************************************)
(* main, line 469 and the start of the loop: the output directory is made  *)
(* and the iteration over the registry begins.                             *)
(***************************************************************************)
MainStart ==
    /\ pc = "import"
    /\ defined = NumClasses
    /\ outdirs' = mkdir(outdirs, args.output_dir)
    /\ order' \in Orders(registry)
    /\ idx' = 1
    /\ pc' = "loop"
    /\ events' = Append(events, Event("main", "mkdir", args.output_dir))
    /\ UNCHANGED <<fs, args, defined, registry, p, outfiles>>
    /\ UNCHANGED <<flipVars, valueVars>>

(* make, line 129: the instance is constructed. *)
MakeInit ==
    /\ pc = "loop"
    /\ idx <= Len(order)
    /\ p' = Plot_init(order[idx], args)
    /\ pc' = "plot"
    /\ events' = Append(events, Event(order[idx], "init", ""))
    /\ UNCHANGED <<fs, args, defined, registry, order, idx, outdirs, outfiles>>
    /\ UNCHANGED <<flipVars, valueVars>>

(* make without the call of save: back to the loop of main at once. *)
after_plot_without_save(exc) == IF exc = "none" THEN "loop" ELSE "raised"

(* make with plot() guarded by a handler that swallows the exception. *)
after_plot_always_save(exc) == "save"

(* Where make goes after p.plot(): on to p.save() when plot returned, out  *)
(* of make with the exception when it raised.                              *)
after_plot(exc) == IF exc = "none" THEN "save" ELSE "raised"

(* make, line 130: p.plot(). *)
MakePlot ==
    /\ pc = "plot"
    /\ p' = plot(fs, args, p)
    /\ pc' = after_plot(p'.exc)
    /\ events' = Append(events, Event(p.cls, "plot", p'.exc))
    /\ UNCHANGED <<fs, args, defined, registry, order, idx, outdirs, outfiles>>
    /\ UNCHANGED <<flipVars, valueVars>>

(* make, lines 131-132: p.save() and the return of p.filename; main goes   *)
(* to the next class.                                                      *)
MakeSave ==
    /\ pc = "save"
    /\ outfiles' = savefig(outfiles, p.outfile)
    /\ events' = events \o << Event(p.cls, "save", p.outfile),
                              Event(p.cls, "return", Filename(p.cls)) >>
    /\ pc' = "loop"
    /\ idx' = idx + 1
    /\ UNCHANGED <<fs, args, defined, registry, order, p, outdirs>>
    /\ UNCHANGED <<flipVars, valueVars>>

(* main without the except clause. *)
main_catches_nothing(exc) == FALSE

(* main with "except Exception" for its except clause. *)
main_catches_everything(exc) == TRUE

(* The except clause of main: the exceptions it handles. *)
main_catches(exc) == IsIOError(exc)

(* main, lines 473-474: the exception is an IOError; it is printed and the *)
(* loop goes to the next class.                                            *)
MainExcept ==
    /\ pc = "raised"
    /\ main_catches(p.exc)
    /\ events' = Append(events, Event(p.cls, "print", p.exc))
    /\ pc' = "loop"
    /\ idx' = idx + 1
    /\ UNCHANGED <<fs, args, defined, registry, order, p, outdirs, outfiles>>
    /\ UNCHANGED <<flipVars, valueVars>>

(* main: any other exception leaves main. *)
MainPropagate ==
    /\ pc = "raised"
    /\ ~main_catches(p.exc)
    /\ events' = Append(events, Event(p.cls, "propagate", p.exc))
    /\ pc' = "aborted"
    /\ UNCHANGED <<fs, args, defined, registry, order, idx, p, outdirs, outfiles>>
    /\ UNCHANGED <<flipVars, valueVars>>

(* main: the registry is exhausted and main returns. *)
MainReturn ==
    /\ pc = "loop"
    /\ idx > Len(order)
    /\ pc' = "done"
    /\ events' = Append(events, Event("main", "return", ""))
    /\ UNCHANGED <<fs, args, defined, registry, order, idx, p, outdirs, outfiles>>
    /\ UNCHANGED <<flipVars, valueVars>>

Next ==
    \/ DefineClass
    \/ MainStart
    \/ MakeInit
    \/ MakePlot
    \/ MakeSave
    \/ MainExcept
    \/ MainPropagate
    \/ MainReturn

Spec == Init /\ [][Next]_vars

(***************************************************************************)
(* The sign-flip rule of the two power-spectrum routines, on arrays of     *)
(* small integers.                                                         *)
(***************************************************************************)
ArrayValues == {-1, 0, 1}

Arrays == UNION { [1..n -> ArrayValues] : n \in 0..MaxLen }

Negate(x) == [i \in 1..Len(x) |-> 0 - x[i]]

(* MatterPowerPlot.plot_section, line 229: "if (p<0).all(): p*=-1" *)
MatterPowerPlot_sign_flip(x) ==
    IF \A i \in 1..Len(x) : x[i] < 0 THEN Negate(x) ELSE x

(* ShearSpectrumPlot.plot_section, lines 313-314: "if all(cl<=0): cl *= -1" *)
ShearSpectrumPlot_sign_flip(x) ==
    IF \A i \in 1..Len(x) : x[i] <= 0 THEN Negate(x) ELSE x

NotFlipped == [routine |-> "none", out |-> <<>>]

(* The program is not running: no action of the import or of main is       *)
(* enabled.                                                                *)
MainIdle ==
    /\ args = [dirname |-> "sample", output_dir |-> "out", prefix |-> "", type |-> "png"]
    /\ fs = [path \in SampleFiles("sample") |-> "absent"]
    /\ defined = 0
    /\ registry = {}
    /\ pc = "idle"
    /\ order = <<>>
    /\ idx = 0
    /\ p = NoPlot
    /\ outdirs = {}
    /\ outfiles = {}
    /\ events = <<>>

FlipInit ==
    /\ MainIdle
    /\ ValuesIdle
    /\ arr \in Arrays
    /\ flipped = NotFlipped

(* The array goes through the sign test of MatterPowerPlot.plot_section. *)
FlipMatterPower ==
    /\ flipped = NotFlipped
    /\ flipped' = [routine |-> "MatterPowerPlot", out |-> MatterPowerPlot_sign_flip(arr)]
    /\ UNCHANGED <<arr, mainVars, valueVars>>

(* The array goes through the sign test of ShearSpectrumPlot.plot_section. *)
FlipShearSpectrum ==
    /\ flipped = NotFlipped
    /\ flipped' = [routine |-> "ShearSpectrumPlot", out |-> ShearSpectrumPlot_sign_flip(arr)]
    /\ UNCHANGED <<arr, mainVars, valueVars>>

FlipNext == FlipMatterPower \/ FlipShearSpectrum

SpecFlip == FlipInit /\ [][FlipNext]_vars

(***************************************************************************)
(* load_values and try_numeric.  Text is a sequence of characters.         *)
(***************************************************************************)
Whitespace == {" ", "\n"}
Digits == {"0", "1", "5"}

DigitValue(c) == CASE c = "0" -> 0 [] c = "1" -> 1 [] c = "5" -> 5

(* str.strip *)
RECURSIVE LStrip(_)
LStrip(t) == IF t # <<>> /\ Head(t) \in Whitespace THEN LStrip(Tail(t)) ELSE t

RECURSIVE RStrip(_)
RStrip(t) ==
    IF t # <<>> /\ t[Len(t)] \in Whitespace THEN RStrip(SubSeq(t, 1, Len(t) - 1)) ELSE t

strip(t) == RStrip(LStrip(t))

(* str.split('='): the pieces between the '=' characters, in order. *)
RECURSIVE SplitFrom(_, _, _)
SplitFrom(t, i, piece) ==
    IF i > Len(t) THEN <<piece>>
    ELSE IF t[i] = "=" THEN <<piece>> \o SplitFrom(t, i + 1, <<>>)
    ELSE SplitFrom(t, i + 1, Append(piece, t[i]))

split(t) == SplitFrom(t, 1, <<>>)

(* The texts float() and int() accept, over the characters of the model:   *)
(* an optional sign, then digits with at most one point and at least one   *)
(* digit (float), or digits alone (int).                                   *)
Unsigned(t) == IF t # <<>> /\ Head(t) = "-" THEN Tail(t) ELSE t

PointCount(t) == Cardinality({ i \in 1..Len(t) : t[i] = "." })

DigitCount(t) == Cardinality({ i \in 1..Len(t) : t[i] \in Digits })

float_accepts(t) ==
    LET u == Unsigned(t)
    IN  /\ \A i \in 1..Len(u) : u[i] \in Digits \cup {"."}
        /\ PointCount(u) <= 1
        /\ DigitCount(u) >= 1

int_accepts(t) ==
    LET u == Unsigned(t)
    IN  /\ \A i \in 1..Len(u) : u[i] \in Digits
        /\ DigitCount(u) >= 1

(* The number a run of digits (the point left out) stands for. *)
RECURSIVE DigitsValue(_, _)
DigitsValue(t, acc) ==
    IF t = <<>> THEN acc
    ELSE IF Head(t) \in Digits THEN DigitsValue(Tail(t), 10 * acc + DigitValue(Head(t)))
    ELSE DigitsValue(Tail(t), acc)

RECURSIVE Pow10(_)
Pow10(n) == IF n = 0 THEN 1 ELSE 10 * Pow10(n - 1)

(* A fraction num/den with den a power of ten, in lowest such terms. *)
RECURSIVE Reduce(_, _)
Reduce(num, den) ==
    IF den > 1 /\ num % 10 = 0 THEN Reduce(num \div 10, den \div 10) ELSE [num |-> num, den |-> den]

Sign(t) == IF t # <<>> /\ Head(t) = "-" THEN -1 ELSE 1

Value(kind, num, den, text) == [kind |-> kind, num |-> num, den |-> den, text |-> text]

(* float(t), for a text float() accepts *)
float_of(t) ==
    LET u == Unsigned(t)
        decimals == IF PointCount(u) = 0 THEN 0
                    ELSE Len(u) - (CHOOSE i \in 1..Len(u) : u[i] = ".")
        r == Reduce(DigitsValue(u, 0), Pow10(decimals))
    IN  Value("float", Sign(t) * r.num, r.den, <<>>)

(* int(t), for a text int() accepts *)
int_of(t) == Value("int", Sign(t) * DigitsValue(Unsigned(t), 0), 1, <<>>)

(* try_numeric with the two conversions in the other order. *)
try_numeric_int_first(value) ==
    IF int_accepts(value) THEN int_of(value)
    ELSE IF float_accepts(value) THEN float_of(value)
    ELSE Value("str", 0, 1, value)

(* Plot.try_numeric *)
try_numeric(value) ==
    IF float_accepts(value) THEN float_of(value)
    ELSE IF int_accepts(value) THEN int_of(value)
    ELSE Value("str", 0, 1, value)

(* values[key] = v *)
DictSet(d, key, v) == [k \in (DOMAIN d) \cup {key} |-> IF k = key THEN v ELSE d[k]]

(* Plot.load_values over the lines of the file; "name, value = ..." is a   *)
(* ValueError unless the split gives exactly two pieces.                   *)
RECURSIVE LoadLines(_, _)
LoadLines(lines, values) ==
    IF lines = <<>> THEN [exc |-> "none", values |-> values]
    ELSE LET line == strip(Head(lines))
         IN  IF line = <<>> THEN LoadLines(Tail(lines), values)
             ELSE IF Len(split(line)) # 2 THEN [exc |-> "ValueError", values |-> <<>>]
             ELSE LoadLines(Tail(lines),
                            DictSet(values, strip(split(line)[1]),
                                    try_numeric(strip(split(line)[2]))))

load_values(lines) == LoadLines(lines, <<>>)

(***************************************************************************)
(* The values.txt files of the model.  A line is kept with what it was     *)
(* written from: a key and a value around one '=', tightly or with         *)
(* whitespace around every part; a blank line; or a line that is not of    *)
(* the form key = value.                                                   *)
(***************************************************************************)
KeyTexts == { <<"a">>, <<"H", "0">> }

ValueTexts ==
    { <<"1">>, <<"1", "0">>, <<"1", ".", "5">>, <<"1", ".", "0">>, <<".", "5">>,
      <<"-", "1">>, <<".">>, <<"x">>, <<"1", " ", "1">>, <<>> }

PairLine(key, value, spaced) ==
    [kind |-> "pair", key |-> key, value |-> value,
     text |-> IF spaced
              THEN <<" ">> \o key \o <<" ", "=", " ">> \o value \o <<" ", "\n">>
              ELSE key \o <<"=">> \o value \o <<"\n">>]

BlankLine(t) == [kind |-> "blank", key |-> <<>>, value |-> <<>>, text |-> t]

OtherLine(t) == [kind |-> "other", key |-> <<>>, value |-> <<>>, text |-> t]

Lines ==
    { PairLine(k, v, sp) : k \in KeyTexts, v \in ValueTexts, sp \in BOOLEAN }
    \cup { BlankLine(<<"\n">>), BlankLine(<<" ", "\n">>) }
    \cup { OtherLine(<<"a", "\n">>), OtherLine(<<"a", "=", "1", "=", "1", "\n">>) }

ValueFiles == UNION { [1..n -> Lines] : n \in 0..MaxLines }

NotLoaded == [exc |-> "none", values |-> <<>>, called |-> FALSE]

ValuesInit ==
    /\ MainIdle
    /\ FlipIdle
    /\ vfile \in ValueFiles
    /\ vresult = NotLoaded

(* load_values is called on the file. *)
LoadValues ==
    /\ ~vresult.called
    /\ vresult' = [exc |-> load_values([i \in 1..Len(vfile) |-> vfile[i].text]).exc,
                   values |-> load_values([i \in 1..Len(vfile) |-> vfile[i].text]).values,
                   called |-> TRUE]
    /\ UNCHANGED <<vfile, mainVars, flipVars>>

ValuesNext == LoadValues

SpecValues == ValuesInit /\ [][ValuesNext]_vars

(***************************************************************************)
(* Properties of a run of main, stated over the history of steps.          *)
(***************************************************************************)
EventsOf(c, step) == { k \in 1..Len(events) : events[k].cls = c /\ events[k].step = step }

Attempts(c) == Cardinality(EventsOf(c, "init"))

Saves(c) == Cardinality(EventsOf(c, "save"))

(* The instance p has been through plot(). *)
Plotted == p.cls # "none" /\ pc # "plot"

FailedLoads(q) == { i \in 1..Len(q.loads) : q.loads[i].exc # "none" }

(* The latest step of the history, and the ones before it.  The history   *)
(* only grows, so what holds of the latest steps in every reachable state  *)
(* holds of every step of every run.  save and return are appended         *)
(* together, so a save is looked at from the return that follows it.       *)
NoEvent == Event("none", "none", "")

Latest(n) == IF Len(events) > n THEN events[Len(events) - n] ELSE NoEvent

(* C1: a plot() that ends with IOError is caught by main, which prints the *)
(* error and goes on with a class not attempted yet (or returns, when none *)
(* is left); an IOError never leaves main; and when main has returned      *)
(* every class of the registry has been attempted.                         *)
C1_IOErrorIsSkipped ==
    /\ (Latest(0).step = "plot" /\ Latest(0).info = "IOError")
       => pc = "raised" /\ p.exc = "IOError" /\ idx <= Len(order)
    /\ Latest(0).step = "print"
       => /\ Latest(1) = Event(Latest(0).cls, "plot", "IOError")
          /\ pc = "loop"
          /\ idx <= Len(order) => Attempts(order[idx]) = 0
    /\ Latest(0).step = "propagate" => Latest(0).info # "IOError"
    /\ pc = "aborted" => p.exc # "IOError"
    /\ pc = "done" => \A c \in registry : Attempts(c) = 1

(* A run that has returned with a class skipped on IOError and another     *)
(* class saved after it.                                                   *)
C1_Witness ==
    /\ pc = "done"
    /\ \E k \in 1..Len(events), m \in 1..Len(events) :
          /\ k < m
          /\ events[k].step = "print"
          /\ events[m].step = "save"

(* C2: save() is called only after plot() has returned without raising; a  *)
(* class whose plot() raised, and in particular one with a failed          *)
(* load_file call, is not saved and has no output file.                    *)
C2_SkippedPlotWritesNoFile ==
    /\ (Plotted /\ FailedLoads(p) # {}) => p.exc # "none"
    /\ (Plotted /\ p.exc # "none")
       => /\ pc # "save"
          /\ Saves(p.cls) = 0
          /\ p.outfile \notin outfiles
    /\ Latest(0).step = "return" /\ Latest(0).cls # "main"
       => /\ Latest(1).step = "save" /\ Latest(1).cls = Latest(0).cls
          /\ Latest(2) = Event(Latest(0).cls, "plot", "none")
          /\ FailedLoads(p) = {}

(* A class has been skipped after a load_file call failed, following one   *)
(* that succeeded, in a run that has saved another class.                  *)
C2_Witness ==
    /\ Latest(0).step = "print"
    /\ FailedLoads(p) # {}
    /\ Len(p.loads) >= 2
    /\ outfiles # {}

(* The output base filenames of the plot classes of the module. *)
DescriptorFilenames ==
    { "angular_distance", "luminosity_distance", "comoving_distance", "hubble",
      "distance_modulus", "tt", "ee", "te", "bb", "grand", "matter_power",
      "shear_power", "matter_power_2d", "shear_xi_plus", "shear_xi_minus", "growth",
      "galaxy_luminosity_slope" }

(* C3: once the module is loaded the registry holds a class for every      *)
(* output base filename, and a run of main that has returned has attempted *)
(* each of them exactly once.                                              *)
C3_EveryDescriptorAttemptedOnce ==
    /\ defined = NumClasses
       => \A fn \in DescriptorFilenames : \E c \in registry : Filename(c) = fn
    /\ pc = "done"
       => \A fn \in DescriptorFilenames :
             \E c \in ClassNames : Filename(c) = fn /\ Attempts(c) = 1

(* The path the claim gives for the output file of class c. *)
ExpectedOutfile(c) ==
    IF args.prefix = ""
    THEN args.output_dir \o "/" \o Filename(c) \o "." \o args.type
    ELSE args.output_dir \o "/" \o args.prefix \o "_" \o Filename(c) \o "." \o args.type

(* C4: a plot() that returned is followed by one savefig, to the expected  *)
(* path, and by the return of the class's base filename; the file is then  *)
(* in the output directory, and every savefig of the run has made one      *)
(* file.                                                                   *)
C4_OneOutputFileAtThePath ==
    /\ (Latest(0).step = "plot" /\ Latest(0).info = "none")
       => pc = "save" /\ p.outfile = ExpectedOutfile(p.cls)
    /\ (Latest(2).step = "plot" /\ Latest(2).info = "none")
       => /\ Latest(1) = Event(Latest(2).cls, "save", ExpectedOutfile(Latest(2).cls))
          /\ Latest(0) = Event(Latest(2).cls, "return", Filename(Latest(2).cls))
          /\ ExpectedOutfile(Latest(2).cls) \in outfiles
          /\ Saves(Latest(2).cls) = 1
    /\ Cardinality(outfiles) = Cardinality({ k \in 1..Len(events) : events[k].step = "save" })

(* A run with a prefix that has returned with some plot saved. *)
C4_Witness ==
    /\ pc = "done"
    /\ args.prefix # ""
    /\ outfiles # {}


(* C5: in both power-spectrum routines the array is negated exactly when   *)
(* all of its values are non-positive.                                     *)
C5_NegatedExactlyWhenAllNonPositive ==
    flipped.routine # "none"
    => flipped.out = IF \A i \in 1..Len(arr) : arr[i] <= 0
                     THEN [i \in 1..Len(arr) |-> 0 - arr[i]]
                     ELSE arr

(* The classes that draw the triangular layout, with the section and the   *)
(* abscissa file each reads.                                               *)
TwoPointClasses == {"MatterPower2D", "ShearCorrelationPlusPlot", "ShearCorrelationMinusPlot"}

TwoPointSection(c) ==
    CASE c = "MatterPower2D"             -> "matter_cl"
      [] c = "ShearCorrelationPlusPlot"  -> "shear_xi_plus"
      [] c = "ShearCorrelationMinusPlot" -> "shear_xi_minus"

Abscissa(c) == IF c = "MatterPower2D" THEN "ell" ELSE "theta"

InSection(c, n) == Condition(fs, file_path(args.dirname, TwoPointSection(c), n))

(* The section of class c has n tomographic bins and every pair file of    *)
(* those bins is present.                                                  *)
HasBins(c, n) ==
    /\ \A i \in 1..n : InSection(c, bin_name(i, i)) # "absent"
    /\ InSection(c, bin_name(n + 1, n + 1)) = "absent"
    /\ \A i \in 1..n : \A j \in 1..i : InSection(c, bin_name(i, j)) # "absent"

(* The abscissa file and every pair file of the n bins load as             *)
(* one-dimensional numeric arrays.                                         *)
BinsLoad(c, n) ==
    /\ InSection(c, Abscissa(c)) = "ok"
    /\ \A i \in 1..n : \A j \in 1..i : InSection(c, bin_name(i, j)) = "ok"

(* The instance has n(n+1)/2 axes, one for each pair (i, j) with j <= i,   *)
(* and axis labels on the axes of the pair (1, 1) alone.                   *)
Triangle(q, n) ==
    /\ 2 * Len(q.axes) = n * (n + 1)
    /\ { q.axes[k] : k \in 1..Len(q.axes) }
         = { pr \in (1..n) \X (1..n) : pr[2] <= pr[1] }
    /\ q.labelled = {<<1, 1>>}

PairLines == { i \in 1..Len(vfile) : vfile[i].kind = "pair" }

(* C7: for a file of key = value lines and blank lines, load_values gives  *)
(* one entry per distinct key, under the key as written; the value is that *)
(* of the last line with the key, a float when float() accepts it, else an *)
(* integer when int() accepts it, else the text as written.                *)
C7_LoadValuesCoerces ==
    (vresult.called /\ \A i \in 1..Len(vfile) : vfile[i].kind \in {"pair", "blank"})
    => /\ vresult.exc = "none"
       /\ DOMAIN vresult.values = { vfile[i].key : i \in PairLines }
       /\ \A i \in PairLines :
             (\A j \in PairLines : j > i => vfile[j].key # vfile[i].key)
             => LET v == vresult.values[vfile[i].key]
                    t == vfile[i].value
                IN  /\ float_accepts(t) => v = float_of(t)
                    /\ (~float_accepts(t) /\ int_accepts(t)) => v = int_of(t)
                    /\ (~float_accepts(t) /\ ~int_accepts(t))
                       => v.kind = "str" /\ v.text = t

(* A file of two lines with the same key has been loaded: the first value  *)
(* is numeric, the second, which is kept, is text; and the number 1.0      *)
(* written as "1.0" is the float 1.                                        *)
C7_Witness ==
    /\ vresult.called
    /\ vresult.exc = "none"
    /\ Len(vfile) = 2
    /\ vfile[1].kind = "pair" /\ vfile[2].kind = "pair"
    /\ vfile[1].key = vfile[2].key
    /\ float_accepts(vfile[1].value)
    /\ vresult.values[vfile[2].key].kind = "str"
    /\ float_of(<<"1", ".", "0">>) = Value("float", 1, 1, <<>>)

(* C8: a load_file call returns the array when the file is numeric text    *)
(* and raises IOError in every other case; and a run never leaves main     *)
(* with a load_file call of the instance failed.                           *)
C8_LoadFileRaisesOnlyIOError ==
    /\ \A i \in 1..Len(p.loads) :
          /\ p.loads[i].condition \in {"ok", "grid"}
             => p.loads[i].exc = "none" /\ p.loads[i].value # "none"
          /\ p.loads[i].condition \in {"absent", "bad", "unreadable"}
             => p.loads[i].exc = "IOError"
    /\ (Plotted /\ FailedLoads(p) # {}) => p.exc = "IOError" /\ pc # "aborted"

(* A class has been skipped because a file of non-numeric text failed to   *)
(* load after a file that loaded.                                          *)
C8_Witness ==
    /\ Latest(0).step = "print"
    /\ \E i \in 1..Len(p.loads), j \in 1..Len(p.loads) :
          /\ p.loads[i].condition = "ok"
          /\ p.loads[j].condition = "bad"

(* C9: the output directory is made once, as the first step of main; each  *)
(* class's steps follow one another (init, plot, then save and return, or  *)
(* print), a class begins only when the one before it has ended, and no    *)
(* class begins twice.                                                     *)
C9_Sequential ==
    /\ pc \notin {"import", "idle"}
       => /\ events[1] = Event("main", "mkdir", args.output_dir)
          /\ outdirs = {args.output_dir}
    /\ Latest(0).step = "mkdir" => Len(events) = 1
    /\ Latest(0).step = "init"
       => /\ \/ Latest(1).step = "mkdir"
             \/ Latest(1).step = "print"
             \/ Latest(1).step = "return" /\ Latest(1).cls # "main"
          /\ Latest(1).cls # Latest(0).cls
          /\ Attempts(Latest(0).cls) = 1
          /\ pc = "plot"
    /\ Latest(0).step = "plot"
       => Latest(1) = Event(Latest(0).cls, "init", "") /\ pc \in {"save", "raised"}
    /\ (Latest(0).step = "return" /\ Latest(0).cls # "main")
       => /\ Latest(1).step = "save" /\ Latest(1).cls = Latest(0).cls
          /\ Latest(2).step = "plot" /\ Latest(2).cls = Latest(0).cls
          /\ pc = "loop"
    /\ Latest(0).step \in {"print", "propagate"}
       => Latest(1).step = "plot" /\ Latest(1).cls = Latest(0).cls

(* A run has returned in which some classes were saved and some skipped. *)
C9_Witness ==
    /\ pc = "done"
    /\ \E k \in 1..Len(events) : events[k].step = "save"
    /\ \E k \in 1..Len(events) : events[k].step = "print"
    /\ Len(events) > 2 * Cardinality(registry)

(* C10: a two-point plot whose section has no file bin_1_1 ends with       *)
(* IOError and is not saved.                                               *)
C10_NoBinDataIsSkipped ==
    (Plotted /\ p.cls \in TwoPointClasses /\ InSection(p.cls, bin_name(1, 1)) = "absent")
    => /\ p.exc = "IOError"
       /\ pc # "save"
       /\ Saves(p.cls) = 0


(* The sections MatterPowerPlot.plot draws from, with the arrays it draws  *)
(* from each: one curve per array.                                         *)
PowerSections ==
    { "matter_power_lin", "matter_power_nl", "matter_power_gal", "matter_power_no_bao",
      "intrinsic_alignment_parameters" }

PowerArrays(section) ==
    IF section = "intrinsic_alignment_parameters" THEN {"p_ii", "p_gi"} ELSE {"p_k"}

(* The files that power_files_exist looks for in a section. *)
PowerFilesChecked == {"k_h", "z", "p_k"}

(* The section has its complete file set: the files looked for and the     *)
(* arrays drawn are all numeric text.                                      *)
PowerComplete(section) ==
    \A n \in PowerFilesChecked \cup PowerArrays(section) :
        Condition(fs, file_path(args.dirname, section, n)) = "ok"

(* C11: MatterPowerPlot.plot ends with IOError, and nothing is saved,      *)
(* exactly when no section has its complete file set; with a complete      *)
(* section it returns, having drawn one curve per array of each complete   *)
(* section; and the files it loads from intrinsic_alignment_parameters are *)
(* among those power_files_exist looks for.                                *)
C11_SkippedIffNoCompleteSection ==
    (Plotted /\ p.cls = "MatterPowerPlot")
    => /\ p.exc = "IOError" <=> (\A s \in PowerSections : ~PowerComplete(s))
       /\ p.exc = "IOError" => pc # "save" /\ Saves(p.cls) = 0
       /\ (\E s \in PowerSections : PowerComplete(s))
          => /\ p.exc = "none"
             /\ p.curves >= Cardinality({ <<s, n>> \in PowerSections \X {"p_k", "p_ii", "p_gi"} :
                                           PowerComplete(s) /\ n \in PowerArrays(s) })
       /\ \A i \in 1..Len(p.loads) :
             \A n \in {"p_ii", "p_gi"} :
                p.loads[i].path # file_path(args.dirname, "intrinsic_alignment_parameters", n)


(* The positions of order, and the steps of the history that are saves. *)
Positions == 1..Len(order)

SaveEvents == { k \in 1..Len(events) : events[k].step = "save" }

(* C12: main recovers from IOError alone.  An exception of another type    *)
(* leaves main as the last step of the run; the classes after the one that *)
(* raised it are not attempted and have no output file, and the files the  *)
(* classes before it saved are in the output directory.                    *)
C12_OtherExceptionsAbortTheRun ==
    /\ Latest(0).step = "print" => Latest(0).info = "IOError"
    /\ (pc = "raised" /\ p.exc # "IOError") => idx \in Positions /\ order[idx] = p.cls
    /\ Latest(0).step = "propagate"
       => /\ Latest(1) = Event(Latest(0).cls, "plot", Latest(0).info)
          /\ Latest(0).info \notin {"none", "IOError"}
          /\ pc = "aborted"
    /\ pc = "aborted"
       => /\ Latest(0) = Event(p.cls, "propagate", p.exc)
          /\ order[idx] = p.cls
          /\ Saves(p.cls) = 0 /\ ExpectedOutfile(p.cls) \notin outfiles
          /\ \A k \in Positions :
                k > idx => /\ Attempts(order[k]) = 0
                           /\ ExpectedOutfile(order[k]) \notin outfiles
          /\ \A k \in Positions :
                k < idx => /\ Attempts(order[k]) = 1
                           /\ Saves(order[k]) = 1 => ExpectedOutfile(order[k]) \in outfiles
          /\ Cardinality(outfiles) = Cardinality(SaveEvents)

(* A run has been left by a ValueError, with classes saved before the one  *)
(* that raised it and classes left after it.                               *)
C12_Witness ==
    /\ pc = "aborted"
    /\ p.exc = "ValueError"
    /\ 1 < idx /\ idx < Len(order)
    /\ outfiles # {}

====
